---- MODULE Spec2Model ----
(***************************************************************************)
(* A model of ecg_qc.EcgQc (src/ecg_qc/ecg_qc.py): the evaluator object,   *)
(* its constructor and its three methods compute_sqi_scores,               *)
(* predict_quality and get_signal_quality.                                 *)
(*                                                                         *)
(* A segment is a 1-D array of integer amplitudes.  Real-valued results    *)
(* (normalised samples and the six scores) are fixed-point integers in     *)
(* units of 1/Scale.  The six indicator functions and the classifier       *)
(* artifact are imported by ecg_qc.py from files that are not part of the  *)
(* sources at hand; they are modelled from the specification's wording.    *)
(***************************************************************************)
EXTENDS Integers, Sequences, FiniteSets

VARIABLES evaluator, loads, call, first, run

vars == <<evaluator, loads, call, first, run>>

(***************************************************************************)
(* Bounds of the model.                                                    *)
(***************************************************************************)
MaxLen == 3
MaxAmp == 1
IdemLen == 2

(***************************************************************************)
(* Representation.                                                         *)
(***************************************************************************)
Scale == 10

Amplitudes == 0..MaxAmp
SegsUpTo(n) == UNION {[1..k -> Amplitudes] : k \in 0..n}
Segs == SegsUpTo(MaxLen)
IdemSegs == SegsUpTo(IdemLen)

\* The constructor's defaults (lines 40-42) and the arguments it is given.
default_model == "xgb_9s.joblib"
default_sampling_frequency == 1000
default_normalized == FALSE

Freqs == {2, 3, default_sampling_frequency}
Paths == {default_model, "five_features.joblib", "missing.joblib"}
Flags == {default_normalized, TRUE}

(***************************************************************************)
(* Arithmetic helpers.                                                     *)
(***************************************************************************)
RECURSIVE Sum(_)
Sum(s) == IF s = <<>> THEN 0 ELSE Head(s) + Sum(Tail(s))

RECURSIVE ISqrt(_)
ISqrt(n) ==
  IF n < 2 THEN n
  ELSE LET r == 2 * ISqrt(n \div 4)
       IN IF (r + 1) * (r + 1) <= n THEN r + 1 ELSE r

Abs(a) == IF a < 0 THEN -a ELSE a
Sgn(a) == IF a < 0 THEN -1 ELSE IF a > 0 THEN 1 ELSE 0

\* n * (x[i] - mean(x)): the deviations from the mean, kept integral.
Dev(x) == [i \in 1..Len(x) |-> Len(x) * x[i] - Sum(x)]
SumSq(x) == Sum([i \in 1..Len(x) |-> x[i] * x[i]])

(***************************************************************************)
(* Outcomes of a call: a returned value or a raised exception.             *)
(***************************************************************************)
NoScores == <<>>
Returned(scores, label) ==
  [kind |-> "return", scores |-> scores, label |-> label, error |-> "none"]
Raised(e) ==
  [kind |-> "raise", scores |-> NoScores, label |-> -1, error |-> e]
NoOutcome == [kind |-> "none", scores |-> NoScores, label |-> -1, error |-> "none"]

(***************************************************************************)
(* sklearn's StandardScaler().fit_transform on the column ecg_signal       *)
(* .reshape(-1, 1), reshaped back to one row: z = (x - mean) / std with    *)
(* the population standard deviation, a zero standard deviation being      *)
(* replaced by 1; an array with no sample is refused with ValueError.  The *)
(* result is a new array in units of 1/Scale.                              *)
(***************************************************************************)
\* A scaler that divides by a zero standard deviation.
fit_transform_strict(x) ==
  IF Len(x) = 0 THEN [ok |-> FALSE, value |-> <<>>, error |-> "ValueError"]
  ELSE IF SumSq(Dev(x)) = 0
  THEN [ok |-> FALSE, value |-> <<>>, error |-> "ZeroDivisionError"]
  ELSE LET d == Dev(x)
           q == SumSq(d)
       IN [ok |-> TRUE,
           value |-> [i \in 1..Len(x) |->
                        Sgn(d[i]) * ISqrt((Scale * Scale * Len(x) * d[i] * d[i]) \div q)],
           error |-> "none"]

fit_transform(x) ==
  IF Len(x) = 0 THEN [ok |-> FALSE, value |-> <<>>, error |-> "ValueError"]
  ELSE LET d == Dev(x)
           q == SumSq(d)
           z == [i \in 1..Len(x) |->
                   IF q = 0 THEN 0
                   ELSE Sgn(d[i]) * ISqrt((Scale * Scale * Len(x) * d[i] * d[i]) \div q)]
       IN [ok |-> TRUE, value |-> z, error |-> "none"]

(***************************************************************************)
(* The six indicators (ecg_qc.sqi_computing), from the specification.      *)
(*                                                                         *)
(* Two peak detectors: a local maximum above the mean, and the first       *)
(* sample of each run above the mid-range level.  Each returns the empty   *)
(* set when no sample passes its threshold.                                *)
(***************************************************************************)
Max(S) == CHOOSE m \in S : \A y \in S : y <= m
Min(S) == CHOOSE m \in S : \A y \in S : m <= y
Range(s) == {s[i] : i \in 1..Len(s)}

PeaksLocalMax(sig) ==
  {i \in 1..Len(sig) :
     /\ Len(sig) * sig[i] > Sum(sig)
     /\ (i > 1 => sig[i] > sig[i - 1])
     /\ (i < Len(sig) => sig[i] >= sig[i + 1])}

PeaksCrossing(sig) ==
  IF Len(sig) = 0 THEN {}
  ELSE LET level == Max(Range(sig)) + Min(Range(sig))
       IN {i \in 1..Len(sig) :
             /\ 2 * sig[i] > level
             /\ (i > 1 => 2 * sig[i - 1] <= level)}

\* The peak indices in increasing order.
RECURSIVE Sorted(_)
Sorted(S) == IF S = {} THEN <<>> ELSE <<Min(S)>> \o Sorted(S \ {Min(S)})

\* Intervals between consecutive peaks, in samples.
RRIntervals(p) ==
  IF Len(p) < 2 THEN <<>> ELSE [j \in 1..(Len(p) - 1) |-> p[j + 1] - p[j]]

\* Matching tolerance in samples: a third of a second.
ToleranceDiv == 3
Tolerance(sampling_frequency) == sampling_frequency \div ToleranceDiv

\* The sentinel of cSQI when fewer than two peaks were found: the worst case.
CSqiSentinel == Scale

\* qSQI: the share of the first detector's peaks that the second detector
\* matches within the tolerance; 0 when either detector finds no peak.
qsqi(sig, sampling_frequency) ==
  LET a == PeaksLocalMax(sig)
      b == PeaksCrossing(sig)
      matched == {i \in a : \E j \in b : Abs(i - j) <= Tolerance(sampling_frequency)}
  IN IF a = {} \/ b = {} THEN 0
     ELSE (Scale * Cardinality(matched)) \div Cardinality(a)

\* cSQI: standard deviation over mean of the RR intervals.
csqi(sig, sampling_frequency) ==
  LET rr == RRIntervals(Sorted(PeaksLocalMax(sig)))
      k == Len(rr)
  IN IF k = 0 THEN CSqiSentinel
     ELSE ISqrt(Scale * Scale * (k * SumSq(rr) - Sum(rr) * Sum(rr))) \div Sum(rr)

\* sSQI: skewness, the third standardized moment; 0 on zero variance.
ssqi(sig) ==
  LET d == Dev(sig)
      q == SumSq(d)
      u == [i \in 1..Len(sig) |->
              IF q = 0 THEN 0 ELSE Sgn(d[i]) * ISqrt((Scale * Scale * d[i] * d[i]) \div q)]
  IN IF q = 0 THEN 0
     ELSE (ISqrt(Len(sig) * Scale * Scale)
             * Sum([i \in 1..Len(sig) |-> u[i] * u[i] * u[i]]))
          \div (Scale * Scale * Scale)

\* kSQI: kurtosis, the fourth standardized moment; 0 on zero variance.
ksqi(sig) ==
  LET d == Dev(sig)
      q == SumSq(d)
      r == [i \in 1..Len(sig) |-> IF q = 0 THEN 0 ELSE (Scale * d[i] * d[i]) \div q]
  IN IF q = 0 THEN 0
     ELSE (Len(sig) * SumSq(r)) \div Scale

\* The power spectral density at the three frequencies 0, fs/4 and fs/2,
\* where the transform's coefficients are 0, 1 and -1.
Cos4(j) == CASE j % 4 = 0 -> 1 [] j % 4 = 2 -> -1 [] OTHER -> 0
Sin4(j) == CASE j % 4 = 1 -> 1 [] j % 4 = 3 -> -1 [] OTHER -> 0
Sq(a) == a * a
PSD(sig) ==
  LET n == Len(sig)
  IN <<Sq(Sum(sig)),
       Sq(Sum([j \in 1..n |-> sig[j] * Cos4(j - 1)]))
         + Sq(Sum([j \in 1..n |-> sig[j] * Sin4(j - 1)])),
       Sq(Sum([j \in 1..n |-> sig[j] * Cos4(2 * (j - 1))]))>>

\* Band edges in Hz; bin b of PSD (b = 1, 2, 3) lies at (b - 1) * fs / 4 Hz.
BaselineHz == 1
QrsLoHz == 1
QrsHiHz == 1
RefHiHz == 2
BandPower(sig, sampling_frequency, lo, hi) ==
  LET p == PSD(sig)
      inband == {b \in 1..3 : /\ 4 * lo <= (b - 1) * sampling_frequency
                              /\ (b - 1) * sampling_frequency <= 4 * hi}
  IN Sum([b \in 1..3 |-> IF b \in inband THEN p[b] ELSE 0])
TotalPower(sig) == Sum(PSD(sig))

\* pSQI: power in the QRS band over power in the reference band.
psqi(sig, sampling_frequency) ==
  LET ref == BandPower(sig, sampling_frequency, QrsLoHz, RefHiHz)
  IN IF ref = 0 THEN 0
     ELSE (Scale * BandPower(sig, sampling_frequency, QrsLoHz, QrsHiHz)) \div ref

\* basSQI: power in the baseline-wander band over the total power.
bassqi(sig, sampling_frequency) ==
  IF TotalPower(sig) = 0 THEN 0
  ELSE (Scale * BandPower(sig, sampling_frequency, 0, BaselineHz)) \div TotalPower(sig)

\* The minimum length: one full cycle of the lowest band of interest.
MinLength(sampling_frequency) == sampling_frequency \div BaselineHz
IsConstant(seg) == Cardinality(Range(seg)) <= 1

(***************************************************************************)
(* The classifier artifact: joblib's load and the loaded object's predict. *)
(* The bundled artifact takes six features; "five_features.joblib" stands  *)
(* for an artifact trained on another feature count, "missing.joblib" for  *)
(* a path that cannot be loaded.                                           *)
(***************************************************************************)
NoModel == "none"
load(model) ==
  IF model = "missing.joblib"
  THEN [ok |-> FALSE, value |-> NoModel]
  ELSE [ok |-> TRUE, value |-> model]

n_features(model) == IF model = "five_features.joblib" THEN 5 ELSE 6

\* The label of one row: good quality when the detectors agree and the
\* baseline band holds little of the power.
GoodQ == 8
GoodBas == 2
Classify(model, row) ==
  IF row[1] >= GoodQ /\ row[Len(row)] <= GoodBas THEN 1 ELSE 0

\* predict on a 2-D array: one label per row; an array of another shape
\* (no row, or rows of another width) is rejected.
model_predict(model, X) ==
  IF X = <<>> \/ \E i \in 1..Len(X) : Len(X[i]) # n_features(model)
  THEN [ok |-> FALSE, labels |-> <<>>]
  ELSE [ok |-> TRUE, labels |-> [i \in 1..Len(X) |-> Classify(model, X[i])]]

\* np.array on a list of rows: a new 2-D array with the same elements.
np_array(sqi_scores) ==
  [i \in 1..Len(sqi_scores) |-> [j \in 1..Len(sqi_scores[i]) |-> sqi_scores[i][j]]]

\* int() of predict's result: defined on an array of one element only.
int(labels) ==
  IF Len(labels) = 1 THEN [ok |-> TRUE, value |-> labels[1]]
  ELSE [ok |-> FALSE, value |-> -1]

(***************************************************************************)
(* The evaluator object and the effect of one method call on everything a  *)
(* call can touch: the outcome, the object's attributes afterwards, the    *)
(* caller's array afterwards, and the calls made to joblib's load, to      *)
(* StandardScaler and to the classifier's predict.                         *)
(***************************************************************************)
NoEvaluator ==
  [exists |-> FALSE, model |-> NoModel, sampling_frequency |-> 0, normalized |-> FALSE]

Effect(outcome, self, ecg_signal, nloads, nfits, predicts) ==
  [outcome |-> outcome, self |-> self, ecg_signal |-> ecg_signal,
   loads |-> nloads, fits |-> nfits, predicts |-> predicts]

__init__(model, sampling_frequency, normalized) ==
  LET m == load(model)
  IN IF ~m.ok
     THEN [ok |-> FALSE, self |-> NoEvaluator, loads |-> 1]
     ELSE [ok |-> TRUE,
           self |-> [exists |-> TRUE, model |-> m.value,
                     sampling_frequency |-> sampling_frequency,
                     normalized |-> normalized],
           loads |-> 1]

\* The local variables q_sqi_score ... bas_sqi_score of compute_sqi_scores.
NoLocals ==
  [q_sqi_score |-> 0, c_sqi_score |-> 0, s_sqi_score |-> 0,
   k_sqi_score |-> 0, p_sqi_score |-> 0, bas_sqi_score |-> 0]

\* Lines 68-69: the RR-interval analysis.
rr_intervals(locals, ecg_signal, sampling_frequency) ==
  [locals EXCEPT !.q_sqi_score = qsqi(ecg_signal, sampling_frequency),
                 !.c_sqi_score = csqi(ecg_signal, sampling_frequency)]

\* Lines 71-72: the amplitude-distribution analysis.
frequency_distribution(locals, ecg_signal) ==
  [locals EXCEPT !.s_sqi_score = ssqi(ecg_signal),
                 !.k_sqi_score = ksqi(ecg_signal)]

\* A spectral analysis that writes pSQI into kSQI's variable.
power_spectrum_overlap(locals, ecg_signal, sampling_frequency) ==
  [locals EXCEPT !.k_sqi_score = psqi(ecg_signal, sampling_frequency),
                 !.bas_sqi_score = bassqi(ecg_signal, sampling_frequency)]

\* Lines 74-75: the spectral analysis.
power_spectrum(locals, ecg_signal, sampling_frequency) ==
  [locals EXCEPT !.p_sqi_score = psqi(ecg_signal, sampling_frequency),
                 !.bas_sqi_score = bassqi(ecg_signal, sampling_frequency)]

\* A row with sSQI and kSQI exchanged.
sqi_scores_list_swapped(locals) ==
  << <<locals.q_sqi_score, locals.c_sqi_score, locals.k_sqi_score,
       locals.s_sqi_score, locals.p_sqi_score, locals.bas_sqi_score>> >>

\* Lines 77-78: the list holding the one row of six scores.
sqi_scores_list(locals) ==
  << <<locals.q_sqi_score, locals.c_sqi_score, locals.s_sqi_score,
       locals.k_sqi_score, locals.p_sqi_score, locals.bas_sqi_score>> >>

\* Lines 64-66: the signal the indicators are computed on.
normalize(self, ecg_signal) ==
  IF self.normalized
  THEN fit_transform(ecg_signal)
  ELSE [ok |-> TRUE, value |-> ecg_signal, error |-> "none"]

\* Three slips of compute_sqi_scores: the flag cleared once the signal has
\* been normalised; the spectral analysis run on the signal as passed in and
\* the others on the normalised one; the normalised samples written
\* into the caller's array.
compute_sqi_scores_oneshot(self, ecg_signal) ==
  LET scaled == normalize(self, ecg_signal)
      nfits == IF self.normalized THEN 1 ELSE 0
  IN IF ~scaled.ok
     THEN Effect(Raised(scaled.error), self, ecg_signal, 0, nfits, <<>>)
     ELSE LET rr == rr_intervals(NoLocals, scaled.value, self.sampling_frequency)
              fd == frequency_distribution(rr, scaled.value)
              ps == power_spectrum(fd, scaled.value, self.sampling_frequency)
          IN Effect(Returned(sqi_scores_list(ps), -1),
                    [self EXCEPT !.normalized = FALSE], ecg_signal, 0, nfits, <<>>)

compute_sqi_scores_mixed(self, ecg_signal) ==
  LET scaled == normalize(self, ecg_signal)
      nfits == IF self.normalized THEN 1 ELSE 0
  IN IF ~scaled.ok
     THEN Effect(Raised(scaled.error), self, ecg_signal, 0, nfits, <<>>)
     ELSE LET rr == rr_intervals(NoLocals, scaled.value, self.sampling_frequency)
              fd == frequency_distribution(rr, scaled.value)
              ps == power_spectrum(fd, ecg_signal, self.sampling_frequency)
          IN Effect(Returned(sqi_scores_list(ps), -1), self, ecg_signal, 0, nfits, <<>>)

compute_sqi_scores_inplace(self, ecg_signal) ==
  LET scaled == normalize(self, ecg_signal)
      nfits == IF self.normalized THEN 1 ELSE 0
  IN IF ~scaled.ok
     THEN Effect(Raised(scaled.error), self, ecg_signal, 0, nfits, <<>>)
     ELSE LET rr == rr_intervals(NoLocals, scaled.value, self.sampling_frequency)
              fd == frequency_distribution(rr, scaled.value)
              ps == power_spectrum(fd, scaled.value, self.sampling_frequency)
          IN Effect(Returned(sqi_scores_list(ps), -1), self, scaled.value, 0, nfits, <<>>)

compute_sqi_scores(self, ecg_signal) ==
  LET scaled == normalize(self, ecg_signal)
      nfits == IF self.normalized THEN 1 ELSE 0
  IN IF ~scaled.ok
     THEN Effect(Raised(scaled.error), self, ecg_signal, 0, nfits, <<>>)
     ELSE LET rr == rr_intervals(NoLocals, scaled.value, self.sampling_frequency)
              fd == frequency_distribution(rr, scaled.value)
              ps == power_spectrum(fd, scaled.value, self.sampling_frequency)
              sqi_scores == sqi_scores_list(ps)
          IN Effect(Returned(sqi_scores, -1), self, ecg_signal, 0, nfits, <<>>)

\* Two slips of predict_quality: the artifact loaded again on every call;
\* label 0 returned when the classifier rejects the array.
predict_quality_reload(self, sqi_scores) ==
  LET X == np_array(sqi_scores)
      predicted == model_predict(load(self.model).value, X)
      prediction == int(predicted.labels)
  IN IF ~predicted.ok
     THEN Effect(Raised("ClassifierError"), self, <<>>, 1, 0, <<X>>)
     ELSE IF ~prediction.ok
     THEN Effect(Raised("TypeError"), self, <<>>, 1, 0, <<X>>)
     ELSE Effect(Returned(NoScores, prediction.value), self, <<>>, 1, 0, <<X>>)

predict_quality_default(self, sqi_scores) ==
  LET X == np_array(sqi_scores)
      predicted == model_predict(self.model, X)
      prediction == int(predicted.labels)
  IN IF ~predicted.ok
     THEN Effect(Returned(NoScores, 0), self, <<>>, 0, 0, <<X>>)
     ELSE IF ~prediction.ok
     THEN Effect(Raised("TypeError"), self, <<>>, 0, 0, <<X>>)
     ELSE Effect(Returned(NoScores, prediction.value), self, <<>>, 0, 0, <<X>>)

predict_quality(self, sqi_scores) ==
  LET X == np_array(sqi_scores)
      predicted == model_predict(self.model, X)
      prediction == int(predicted.labels)
  IN IF ~predicted.ok
     THEN Effect(Raised("ClassifierError"), self, <<>>, 0, 0, <<X>>)
     ELSE IF ~prediction.ok
     THEN Effect(Raised("TypeError"), self, <<>>, 0, 0, <<X>>)
     ELSE Effect(Returned(NoScores, prediction.value), self, <<>>, 0, 0, <<X>>)

\* A shortcut that scores the segment twice before predicting.
get_signal_quality_twice(self, ecg_signal) ==
  LET scored == compute_sqi_scores(self, ecg_signal)
  IN IF scored.outcome.kind = "raise"
     THEN scored
     ELSE LET again == compute_sqi_scores(scored.self, ecg_signal)
              quality == predict_quality(again.self, again.outcome.scores)
          IN Effect(quality.outcome, quality.self, again.ecg_signal,
                    scored.loads + again.loads + quality.loads,
                    scored.fits + again.fits + quality.fits,
                    scored.predicts \o again.predicts \o quality.predicts)

get_signal_quality(self, ecg_signal) ==
  LET scored == compute_sqi_scores(self, ecg_signal)
  IN IF scored.outcome.kind = "raise"
     THEN scored
     ELSE LET quality == predict_quality(scored.self, scored.outcome.scores)
          IN Effect(quality.outcome, quality.self, scored.ecg_signal,
                    scored.loads + quality.loads, scored.fits + quality.fits,
                    scored.predicts \o quality.predicts)

(***************************************************************************)
(* The state: the evaluator (absent before and after a failed              *)
(* construction), the number of load calls so far, and the last call with  *)
(* its argument, what the caller's array holds afterwards, its outcome and *)
(* the collaborators it used.                                              *)
(***************************************************************************)
NoCall ==
  [op |-> "none", ecg_signal |-> <<>>, after |-> <<>>, sqi_scores |-> <<>>,
   outcome |-> NoOutcome, fits |-> 0, predicts |-> <<>>]

\* The first remembered compute_sqi_scores call, and whether another call
\* has been made since.
NoFirst == [set |-> FALSE, ecg_signal |-> <<>>, outcome |-> NoOutcome, between |-> FALSE]

\* One run of compute_sqi_scores with its three analyses as separate tasks:
\* the analyses that have finished, in the order they finished, and the
\* local variables they have written.
NoRun ==
  [active |-> FALSE, ecg_signal |-> <<>>, signal |-> <<>>, order |-> <<>>,
   locals |-> NoLocals, out |-> NoOutcome]

\* Arguments of direct predict_quality calls: one row of six scores, and
\* arrays of other shapes.
ZeroRow == [j \in 1..6 |-> 0]
FullRow == [j \in 1..6 |-> Scale]
PredictArgs ==
  {<<r>> : r \in [1..6 -> {0, Scale}]}
    \cup {<<>>, <<[j \in 1..5 |-> 0]>>, <<ZeroRow, FullRow>>}

Init ==
  /\ evaluator = NoEvaluator
  /\ loads = 0
  /\ call = NoCall
  /\ first = NoFirst
  /\ run = NoRun

Construct ==
  /\ loads = 0
  /\ \E model \in Paths, sampling_frequency \in Freqs, normalized \in Flags :
       LET made == __init__(model, sampling_frequency, normalized)
       IN /\ evaluator' = made.self
          /\ loads' = loads + made.loads
  /\ UNCHANGED <<call, run>>

Apply(op, ecg_signal, sqi_scores, eff) ==
  /\ evaluator' = eff.self
  /\ loads' = loads + eff.loads
  /\ call' = [op |-> op, ecg_signal |-> ecg_signal, after |-> eff.ecg_signal,
              sqi_scores |-> sqi_scores, outcome |-> eff.outcome,
              fits |-> eff.fits, predicts |-> eff.predicts]
  /\ UNCHANGED run

\* The evaluators a construction can yield, and the two segment-taking
\* methods tabulated over them and the segments (each entry is the method's
\* effect, computed once).
Evaluators ==
  {__init__(m, f, n).self : m \in Paths \ {"missing.joblib"}, f \in Freqs, n \in Flags}

ComputeTable ==
  [p \in {<<self, seg>> : self \in Evaluators, seg \in Segs} |-> compute_sqi_scores(p[1], p[2])]
GetTable ==
  [p \in {<<self, seg>> : self \in Evaluators, seg \in Segs} |-> get_signal_quality(p[1], p[2])]

ComputeSqiScores(S) ==
  /\ evaluator.exists
  /\ \E ecg_signal \in S :
       Apply("compute_sqi_scores", ecg_signal, <<>>,
             ComputeTable[<<evaluator, ecg_signal>>])

PredictQuality(A) ==
  /\ evaluator.exists
  /\ \E sqi_scores \in A :
       Apply("predict_quality", <<>>, sqi_scores,
             predict_quality(evaluator, sqi_scores))

GetSignalQuality(S) ==
  /\ evaluator.exists
  /\ \E ecg_signal \in S :
       Apply("get_signal_quality", ecg_signal, <<>>,
             GetTable[<<evaluator, ecg_signal>>])

Next ==
  \/ Construct /\ UNCHANGED first
  \/ ComputeSqiScores(Segs) /\ UNCHANGED first
  \/ PredictQuality(PredictArgs) /\ UNCHANGED first
  \/ GetSignalQuality(Segs) /\ UNCHANGED first

Spec == Init /\ [][Next]_vars

(***************************************************************************)
(* The same calls, with one compute_sqi_scores call remembered so that a   *)
(* later call on the same segment can be compared with it.                 *)
(***************************************************************************)
IdemPredictArgs == {<<ZeroRow>>, <<FullRow>>, <<>>}

SameAsFirst(c) ==
  c.op = "compute_sqi_scores" /\ c.ecg_signal = first.ecg_signal

Later ==
  first' = IF first.set /\ ~SameAsFirst(call')
           THEN [first EXCEPT !.between = TRUE]
           ELSE first

Remember ==
  /\ ~first.set
  /\ first' = [set |-> TRUE, ecg_signal |-> call'.ecg_signal,
               outcome |-> call'.outcome, between |-> FALSE]

NextIdem ==
  \/ Construct /\ UNCHANGED first
  \/ ComputeSqiScores(IdemSegs) /\ Remember
  \/ ComputeSqiScores(IdemSegs) /\ Later
  \/ PredictQuality(IdemPredictArgs) /\ Later
  \/ GetSignalQuality(IdemSegs) /\ Later

SpecIdem == Init /\ [][NextIdem]_vars

(***************************************************************************)
(* compute_sqi_scores with the three analyses of lines 68-75 run as tasks  *)
(* that finish in any order, and the assembly of lines 77-78 run once all  *)
(* three have finished.                                                    *)
(***************************************************************************)
Analyses == {"rr_intervals", "frequency_distribution", "power_spectrum"}

\* Lines 68-78: the assembly comes after the three analyses.
all_finished(order) == Range(order) = Analyses

StartRun ==
  /\ evaluator.exists
  /\ ~run.active
  /\ \E ecg_signal \in Segs :
       LET scaled == normalize(evaluator, ecg_signal)
       IN run' = IF scaled.ok
                 THEN [active |-> TRUE, ecg_signal |-> ecg_signal,
                       signal |-> scaled.value, order |-> <<>>,
                       locals |-> NoLocals, out |-> NoOutcome]
                 ELSE [active |-> FALSE, ecg_signal |-> ecg_signal,
                       signal |-> <<>>, order |-> <<>>,
                       locals |-> NoLocals, out |-> Raised(scaled.error)]
  /\ UNCHANGED <<evaluator, loads, call, first>>

Finish(task, locals) ==
  /\ run.active
  /\ task \notin Range(run.order)
  /\ run' = [run EXCEPT !.order = Append(@, task), !.locals = locals]
  /\ UNCHANGED <<evaluator, loads, call, first>>

RRIntervalTask ==
  Finish("rr_intervals",
         rr_intervals(run.locals, run.signal, evaluator.sampling_frequency))

FrequencyDistributionTask ==
  Finish("frequency_distribution",
         frequency_distribution(run.locals, run.signal))

PowerSpectrumTask ==
  Finish("power_spectrum",
         power_spectrum(run.locals, run.signal, evaluator.sampling_frequency))

Assemble ==
  /\ run.active
  /\ all_finished(run.order)
  /\ run' = [run EXCEPT !.active = FALSE,
                        !.out = Returned(sqi_scores_list(run.locals), -1)]
  /\ UNCHANGED <<evaluator, loads, call, first>>

NextConc ==
  \/ Construct /\ UNCHANGED first
  \/ StartRun
  \/ RRIntervalTask
  \/ FrequencyDistributionTask
  \/ PowerSpectrumTask
  \/ Assemble

SpecConc == Init /\ [][NextConc]_vars

(***************************************************************************)
(* The claims.                                                             *)
(***************************************************************************)
Computed == call.op = "compute_sqi_scores"
Predicted == call.op = "predict_quality"
Evaluated == call.op = "get_signal_quality"

\* The six indicators in the order qSQI, cSQI, sSQI, kSQI, pSQI, basSQI.
Indicator(i, sig, sampling_frequency) ==
  CASE i = 1 -> qsqi(sig, sampling_frequency)
    [] i = 2 -> csqi(sig, sampling_frequency)
    [] i = 3 -> ssqi(sig)
    [] i = 4 -> ksqi(sig)
    [] i = 5 -> psqi(sig, sampling_frequency)
    [] i = 6 -> bassqi(sig, sampling_frequency)
SixOn(sig, sampling_frequency) ==
  [i \in 1..6 |-> Indicator(i, sig, sampling_frequency)]

LongEnough(seg) == Len(seg) >= MinLength(evaluator.sampling_frequency)
ValidSegment(seg) == LongEnough(seg) /\ ~IsConstant(seg)

\* C1, as stated: for a valid non-constant segment the value returned by
\* compute_sqi_scores is a vector of exactly six scores, position i holding
\* the i-th indicator of qSQI, cSQI, sSQI, kSQI, pSQI, basSQI.
C1_ReturnsSixScores ==
  (Computed /\ ValidSegment(call.ecg_signal)) =>
    /\ call.outcome.kind = "return"
    /\ Len(call.outcome.scores) = 6
    /\ \A i \in 1..6 :
         call.outcome.scores[i]
           = Indicator(i, normalize(evaluator, call.ecg_signal).value,
                       evaluator.sampling_frequency)

\* C1, amended: for a valid non-constant segment compute_sqi_scores returns
\* a list holding exactly one row, and that row is the vector of exactly six
\* scores, position i holding the i-th indicator of qSQI, cSQI, sSQI, kSQI,
\* pSQI, basSQI, none missing, duplicated or reordered.
C1_ReturnsOneRowOfSixScores ==
  (Computed /\ ValidSegment(call.ecg_signal)) =>
    /\ call.outcome.kind = "return"
    /\ Len(call.outcome.scores) = 1
    /\ Len(call.outcome.scores[1]) = 6
    /\ \A i \in 1..6 :
         call.outcome.scores[1][i]
           = Indicator(i, normalize(evaluator, call.ecg_signal).value,
                       evaluator.sampling_frequency)

C1_Witness ==
  /\ Computed
  /\ ValidSegment(call.ecg_signal)
  /\ call.outcome.kind = "return"
  /\ call.outcome.scores[1][3] # call.outcome.scores[1][4]

\* C2: a get_signal_quality call is compute_sqi_scores followed by
\* predict_quality and nothing else: its outcome (label or raised failure),
\* its uses of the scaler and of the classifier, the evaluator and the
\* caller's array afterwards are those of the composition, and a failure of
\* compute_sqi_scores is the call's failure with no prediction made.
Composition(self, ecg_signal) ==
  LET scored == compute_sqi_scores(self, ecg_signal)
      quality == predict_quality(scored.self, scored.outcome.scores)
  IN IF scored.outcome.kind = "raise"
     THEN [outcome |-> scored.outcome, self |-> scored.self,
           after |-> scored.ecg_signal, fits |-> scored.fits, predicts |-> <<>>]
     ELSE [outcome |-> quality.outcome, self |-> quality.self,
           after |-> scored.ecg_signal, fits |-> scored.fits,
           predicts |-> quality.predicts]

C2_IsComposition ==
  [][(evaluator.exists /\ call'.op = "get_signal_quality") =>
       LET c == Composition(evaluator, call'.ecg_signal)
       IN /\ call'.outcome = c.outcome
          /\ call'.fits = c.fits
          /\ call'.predicts = c.predicts
          /\ call'.after = c.after
          /\ evaluator' = c.self
          /\ loads' = loads]_vars

C2_Witness ==
  /\ Evaluated
  /\ evaluator.normalized
  /\ call.outcome.kind = "return"
  /\ call.outcome.label = 1

\* C3: compute_sqi_scores fails with InvalidSegment, returning no scores,
\* whenever the segment is shorter than the minimum length for the
\* configured sampling frequency, or is constant while normalization is on.
C3_InvalidSegmentRaised ==
  (Computed /\ (~LongEnough(call.ecg_signal)
                  \/ (evaluator.normalized /\ IsConstant(call.ecg_signal)))) =>
    call.outcome = Raised("InvalidSegment")

C5_Idempotent ==
  (first.set /\ SameAsFirst(call)) => call.outcome = first.outcome

C5_Witness ==
  /\ first.set
  /\ first.between
  /\ SameAsFirst(call)
  /\ evaluator.normalized
  /\ call.outcome.kind = "return"

\* C6: the classifier is loaded exactly once, by the constructor: when the
\* load fails there is no evaluator and no call is ever made on one, and no
\* call loads again or fails with a load failure.
C6_LoadedOnce ==
  /\ loads <= 1
  /\ evaluator.exists => (loads = 1 /\ evaluator.model # NoModel)
  /\ (loads = 1 /\ ~evaluator.exists) => call = NoCall
  /\ call.op # "none" =>
       /\ evaluator.exists
       /\ loads = 1
       /\ call.outcome.error \in {"none", "ValueError", "ClassifierError", "TypeError"}

C6_Witness ==
  /\ Predicted
  /\ loads = 1
  /\ call.outcome.kind = "return"

\* C7: predict_quality hands the given scores to the classifier exactly
\* once, content and order unchanged; it returns the classifier's label for
\* the vector, and when the classifier rejects the scores the call fails with
\* the classifier's error, with no second attempt and no label in its place.
C7_Delegates ==
  Predicted =>
    LET answer == model_predict(evaluator.model, call.sqi_scores)
    IN /\ call.predicts = <<call.sqi_scores>>
       /\ ~answer.ok => call.outcome = Raised("ClassifierError")
       /\ (answer.ok /\ Len(answer.labels) = 1) =>
            call.outcome = Returned(NoScores, answer.labels[1])

C7_Witness ==
  /\ Predicted
  /\ Len(call.sqi_scores) = 1
  /\ Len(call.sqi_scores[1]) = 6
  /\ call.outcome = Raised("ClassifierError")

\* C8: whatever order the three analyses finish in, the assembled scores
\* are those of compute_sqi_scores, which runs them in the code's order.
C8_OrderIndependent ==
  run.out.kind # "none" =>
    run.out = compute_sqi_scores(evaluator, run.ecg_signal).outcome

C8_Witness ==
  /\ run.out.kind = "return"
  /\ run.order = <<"power_spectrum", "frequency_distribution", "rr_intervals">>
  /\ run.out.scores[1][4] # run.out.scores[1][5]

\* C9: with normalized false the scaler is not used and all six indicators
\* are those of the segment as passed in; with normalized true the scaler is
\* used once and all six indicators are those of the normalised segment (no
\* indicator at all when the scaler refuses the segment).
C9_NormalizationGated ==
  Computed =>
    LET scaled == fit_transform(call.ecg_signal)
    IN IF ~evaluator.normalized
       THEN /\ call.fits = 0
            /\ call.outcome
                 = Returned(<<SixOn(call.ecg_signal, evaluator.sampling_frequency)>>, -1)
       ELSE /\ call.fits = 1
            /\ scaled.ok =>
                 call.outcome
                   = Returned(<<SixOn(scaled.value, evaluator.sampling_frequency)>>, -1)
            /\ ~scaled.ok => call.outcome.kind = "raise"

C9_Witness ==
  /\ Computed
  /\ evaluator.normalized
  /\ call.outcome.kind = "return"
  /\ call.outcome.scores # <<SixOn(call.ecg_signal, evaluator.sampling_frequency)>>

\* C10: no call, failing or not, changes the evaluator's classifier,
\* sampling frequency or normalization flag, and the caller's segment holds
\* after the call what it held before.
C10_NothingMutated ==
  [][evaluator.exists => (evaluator' = evaluator /\ call'.after = call'.ecg_signal)]_vars

C10_Witness ==
  /\ Evaluated
  /\ evaluator.normalized
  /\ call.outcome.kind = "raise"
  /\ call.fits = 1
  /\ fit_transform(call.ecg_signal).ok
  /\ fit_transform(call.ecg_signal).value # call.ecg_signal

====
